---------------------------- MODULE Spec2Model ----------------------------
(* A model of crates/rust-analyzer/src/test_runner.rs: the decoding of one *)
(* line of `cargo test` output into a CargoTestMessage (from_line,         *)
(* from_eof), the construction of the cargo command line                   *)
(* (CargoTestHandle::new) and the run that a successful spawn starts.      *)
(*                                                                         *)
(* A line of text is modelled as the sequence of its lexical tokens        *)
(* (white space dropped); a token is a record [k, v] whose kind k is       *)
(* "punct", "str" (a JSON string literal, v its content), "num" or "word"  *)
(* (bare text).  Two lines are the same text iff they are the same token   *)
(* sequence.                                                               *)
EXTENDS Naturals, Sequences, FiniteSets, TLC

VARIABLES
    \* ---- decoding of one line (SpecParse)
    src,        \* how the line was produced: [fields, trail]
    line,       \* the line handed to from_line
    message,    \* from_line's return value, NotCalled before the call
    \* ---- command construction (SpecCmd)
    input,      \* the arguments of CargoTestHandle::new
    cmd,        \* the command built from them, NotCalled before the call
    \* ---- runs (Spec)
    result,     \* per run: what CargoTestHandle::new returned
    handle,     \* per run: the CargoTestHandle held by the caller
    spawned,    \* per run: what CommandHandle::spawn was called with
    sender,     \* per run: the channel the caller passed to new as `sender`
    reader,     \* per run: position of the background reader
    lines,      \* per run: the output lines read so far, in arrival order
    chan        \* per channel: the messages sent so far, oldest first

vars == <<src, line, message, input, cmd,
          result, handle, spawned, sender, reader, lines, chan>>

parseVars == <<src, line, message>>
cmdVars == <<input, cmd>>
runVars == <<result, handle, spawned, sender, reader, lines, chan>>

NotCalled == [none |-> "not called"]

--------------------------------------------------------------------------
(* Bounds *)

\* the largest number of fields of a generated JSON object
MaxFields == 4
\* the largest number of lines a modelled process prints
MaxLines == 2

--------------------------------------------------------------------------
(* Tokens and lines *)

Punct(c) == [k |-> "punct", v |-> c]
Str(s) == [k |-> "str", v |-> s]
\* a number literal; the generated ones are fractions such as 0.01
Num(n) == [k |-> "num", v |-> n]
Word(w) == [k |-> "word", v |-> w]

LBrace == Punct("{")
RBrace == Punct("}")
Colon == Punct(":")
Comma == Punct(",")

\* the text whose characters are the content of the string literal s
StrText(s) == IF s = "" THEN <<>> ELSE <<Word(s)>>

--------------------------------------------------------------------------
(* CargoTestMessage and TestState *)

Started == [event |-> "Started"]
Ok == [event |-> "Ok"]
Ignored == [event |-> "Ignored"]
Failed(stdout) == [event |-> "Failed", stdout |-> stdout]

Test(name, state) == [type |-> "Test", name |-> name, state |-> state]
Suite == [type |-> "Suite"]
Finished == [type |-> "Finished"]
Custom(text) == [type |-> "Custom", text |-> text]

Some(v) == [some |-> TRUE, v |-> v]
None == [some |-> FALSE]

--------------------------------------------------------------------------
(* serde_json over the tokens of a line: one JSON value is read from the   *)
(* front of the input; what follows it is not looked at, because from_line *)
(* never calls Deserializer::end.                                          *)

SyntaxError == [ok |-> FALSE]

RECURSIVE ParsePairs(_, _, _)
\* toks[i] starts a "key": value pair of an object whose earlier pairs are acc
ParsePairs(toks, i, acc) ==
    IF i + 3 > Len(toks) THEN SyntaxError
    ELSE IF ~(toks[i].k = "str" /\ toks[i + 1] = Colon
              /\ toks[i + 2].k \in {"str", "num"}) THEN SyntaxError
    ELSE LET acc2 == Append(acc, <<toks[i].v, toks[i + 2]>>)
         IN  IF toks[i + 3] = RBrace THEN [ok |-> TRUE, fields |-> acc2]
             ELSE IF toks[i + 3] = Comma THEN ParsePairs(toks, i + 4, acc2)
             ELSE SyntaxError

\* the JSON object at the front of toks, as its sequence of <<key, value>>
ParseObject(toks) ==
    IF Len(toks) < 2 \/ toks[1] # LBrace THEN SyntaxError
    ELSE IF toks[2] = RBrace THEN [ok |-> TRUE, fields |-> <<>>]
    ELSE ParsePairs(toks, 2, <<>>)

\* the values the object gives for key, in order of appearance
Values(fields, key) ==
    LET idx == {i \in 1..Len(fields) : fields[i][1] = key}
        RECURSIVE Pick(_)
        Pick(i) == IF i > Len(fields) THEN <<>>
                   ELSE IF i \in idx THEN <<fields[i][2]>> \o Pick(i + 1)
                   ELSE Pick(i + 1)
    IN  Pick(1)

\* TestState decoded without `default` on stdout
DecodeTestState_NoDefault(fields) ==
    LET ev == Values(fields, "event")
        out == Values(fields, "stdout")
    IN  IF Len(ev) # 1 \/ ev[1].k # "str" THEN None
        ELSE IF ev[1].v = "started" THEN Some(Started)
        ELSE IF ev[1].v = "ok" THEN Some(Ok)
        ELSE IF ev[1].v = "ignored" THEN Some(Ignored)
        ELSE IF ev[1].v = "failed" THEN
            IF Len(out) = 1 /\ out[1].k = "str" THEN Some(Failed(out[1].v))
            ELSE None
        ELSE None

\* #[serde(tag = "event", rename_all = "camelCase")] enum TestState
DecodeTestState(fields) ==
    LET ev == Values(fields, "event")
        out == Values(fields, "stdout")
    IN  IF Len(ev) # 1 \/ ev[1].k # "str" THEN None
        ELSE IF ev[1].v = "started" THEN Some(Started)
        ELSE IF ev[1].v = "ok" THEN Some(Ok)
        ELSE IF ev[1].v = "ignored" THEN Some(Ignored)
        ELSE IF ev[1].v = "failed" THEN
            IF Len(out) = 0 THEN Some(Failed(""))
            ELSE IF Len(out) = 1 /\ out[1].k = "str" THEN Some(Failed(out[1].v))
            ELSE None
        ELSE None

\* #[serde(tag = "type", rename_all = "camelCase")] enum CargoTestMessage
DecodeCargoTestMessage(fields) ==
    LET ty == Values(fields, "type")
        name == Values(fields, "name")
        text == Values(fields, "text")
        state == DecodeTestState(fields)
    IN  IF Len(ty) # 1 \/ ty[1].k # "str" THEN None
        ELSE IF ty[1].v = "suite" THEN Some(Suite)
        ELSE IF ty[1].v = "finished" THEN Some(Finished)
        ELSE IF ty[1].v = "test" THEN
            IF Len(name) = 1 /\ name[1].k = "str" /\ state.some
            THEN Some(Test(name[1].v, state.v))
            ELSE None
        ELSE IF ty[1].v = "custom" THEN
            IF Len(text) = 1 /\ text[1].k = "str"
            THEN Some(Custom(StrText(text[1].v)))
            ELSE None
        ELSE None

\* CargoTestMessage::deserialize(&mut deserializer)
Deserialize(l) ==
    LET obj == ParseObject(l)
    IN  IF obj.ok THEN DecodeCargoTestMessage(obj.fields) ELSE None

\* from_line answering a line that does not decode with no message
from_line_NoFallback(l) ==
    LET decoded == Deserialize(l)
    IN  IF decoded.some THEN Some(decoded.v) ELSE None

\* ParseFromLine::from_line
from_line(l) ==
    LET decoded == Deserialize(l)
    IN  IF decoded.some THEN Some(decoded.v) ELSE Some(Custom(l))

\* from_eof answering the end of the output with no message
from_eof_None == None

\* ParseFromLine::from_eof
from_eof == Some(Finished)

--------------------------------------------------------------------------
(* The lines fed to from_line.  A line is produced from a source: either   *)
(* bare text, or a JSON object given by its fields in order, written out   *)
(* by Render and then left whole, cut short or followed by more text.      *)

FieldValues(key) ==
    CASE key = "type" ->
            {Str(t) : t \in {"test", "suite", "finished", "custom", "bench"}}
      [] key = "name" -> {Str("mod::f"), Num("0.01")}
      [] key = "event" ->
            {Str(e) : e \in {"started", "ok", "ignored", "failed", "timeout"}}
      [] key = "stdout" -> {Str("panic!"), Str(""), Num("0.01")}
      [] key = "text" -> {Str("hello")}
      [] key = "exec_time" -> {Num("0.01")}

Keys == {"type", "name", "event", "stdout", "text", "exec_time"}

Pairs == UNION {{<<key, v>> : v \in FieldValues(key)} : key \in Keys}

DistinctKeys(fs) == \A i, j \in 1..Len(fs) : fs[i][1] = fs[j][1] => i = j

\* objects that repeat a key
RepeatedFieldSeqs ==
    { <<<<"type", Str("suite")>>, <<"type", Str("suite")>>>>,
      <<<<"type", Str("finished")>>, <<"exec_time", Num("0.01")>>,
        <<"exec_time", Num("0.01")>>>>,
      <<<<"type", Str("test")>>, <<"name", Str("mod::f")>>,
        <<"name", Str("mod::f")>>, <<"event", Str("ok")>>>>,
      <<<<"type", Str("test")>>, <<"name", Str("mod::f")>>,
        <<"event", Str("ok")>>, <<"event", Str("failed")>>>> }

FieldSeqs ==
    RepeatedFieldSeqs \cup
    UNION {{fs \in [1..n -> Pairs] : DistinctKeys(fs)} : n \in 0..MaxFields}

Trails == {"none", "truncated", "garbage"}

TextLines ==
    { <<>>,
      <<Word("running"), Word("3"), Word("tests")>>,
      <<Str("suite")>>,
      <<LBrace>> }

Sources ==
    [kind : {"object"}, fields : FieldSeqs, trail : Trails]
    \cup [kind : {"text"}, text : TextLines]

RECURSIVE RenderPairs(_, _)
RenderPairs(fs, i) ==
    IF i > Len(fs) THEN <<>>
    ELSE (IF i > 1 THEN <<Comma>> ELSE <<>>)
         \o <<Str(fs[i][1]), Colon, fs[i][2]>> \o RenderPairs(fs, i + 1)

\* the JSON text of the object with fields fs
RenderObject(fs) == <<LBrace>> \o RenderPairs(fs, 1) \o <<RBrace>>

Render(s) ==
    IF s.kind = "text" THEN s.text
    ELSE LET whole == RenderObject(s.fields)
         IN  CASE s.trail = "none" -> whole
               [] s.trail = "truncated" -> SubSeq(whole, 1, Len(whole) - 1)
               [] s.trail = "garbage" -> whole \o <<Word("warning")>>

--------------------------------------------------------------------------
(* SpecParse: from_line applied to one line *)

InitRuns ==
    /\ result = [r \in {} |-> 0]
    /\ handle = result /\ spawned = result /\ sender = result
    /\ reader = result /\ lines = result /\ chan = result

InitParse ==
    /\ \E s \in Sources : src = s /\ line = Render(s)
    /\ message = NotCalled
    /\ input = NotCalled /\ cmd = NotCalled
    /\ InitRuns

Parse ==
    /\ message = NotCalled
    /\ message' = from_line(line)
    /\ UNCHANGED <<src, line, cmdVars, runVars>>

NextParse == Parse

SpecParse == InitParse /\ [][NextParse]_vars

--------------------------------------------------------------------------
(* What a source encodes, read off its field list (not off its text) *)

Count(fs, key) == Cardinality({i \in 1..Len(fs) : fs[i][1] = key})

ValueOf(fs, key) == fs[CHOOSE i \in 1..Len(fs) : fs[i][1] = key][2]

HasString(fs, key) == Count(fs, key) = 1 /\ ValueOf(fs, key).k = "str"

\* fs is a message of one of the shapes test, suite, finished
KnownShape(fs) ==
    /\ HasString(fs, "type")
    /\ \/ ValueOf(fs, "type").v \in {"suite", "finished"}
       \/ /\ ValueOf(fs, "type").v = "test"
          /\ HasString(fs, "name")
          /\ HasString(fs, "event")
          /\ ValueOf(fs, "event").v \in {"started", "ok", "ignored", "failed"}
          /\ ValueOf(fs, "event").v = "failed" =>
                Count(fs, "stdout") = 0 \/ HasString(fs, "stdout")

EncodedState(fs) ==
    CASE ValueOf(fs, "event").v = "started" -> Started
      [] ValueOf(fs, "event").v = "ok" -> Ok
      [] ValueOf(fs, "event").v = "ignored" -> Ignored
      [] ValueOf(fs, "event").v = "failed" ->
            IF Count(fs, "stdout") = 0 THEN Failed("")
            ELSE Failed(ValueOf(fs, "stdout").v)

Encoded(fs) ==
    CASE ValueOf(fs, "type").v = "suite" -> Suite
      [] ValueOf(fs, "type").v = "finished" -> Finished
      [] ValueOf(fs, "type").v = "test" ->
            Test(ValueOf(fs, "name").v, EncodedState(fs))

\* the line is exactly one message of a known shape
IsKnownMessage(s) == s.kind = "object" /\ s.trail = "none" /\ KnownShape(s.fields)

\* C3 (as claimed): every line that is not a message of one of the three
\* known shapes is returned as Custom carrying the whole line.
C3_FallbackIsWholeLine ==
    (message # NotCalled /\ ~IsKnownMessage(src)) => message = Some(Custom(line))

\* C4: a line that is a message of a known shape decodes to the event whose
\* tag and fields are the encoded ones; a failed message without stdout
\* decodes to Failed with empty stdout.
C4_RoundTrip ==
    (message # NotCalled /\ IsKnownMessage(src)) => message = Some(Encoded(src.fields))

\* C4 witness: the line {"type":"test","event":"failed","name":"mod::f",
\* "stdout":"panic!"} has been decoded.
C4_Witness ==
    /\ src = [kind |-> "object", trail |-> "none",
              fields |-> << <<"type", Str("test")>>, <<"event", Str("failed")>>,
                            <<"name", Str("mod::f")>>, <<"stdout", Str("panic!")>> >>]
    /\ message = Some(Test("mod::f", Failed("panic!")))

--------------------------------------------------------------------------
(* CargoTestHandle::new: the command line *)

Workspace == [scope |-> "Workspace"]
Package(package, target, kind) ==
    [scope |-> "Package", package |-> package, target |-> target, kind |-> kind]

\* project_model::TargetKind
Lib(is_proc_macro) == [tag |-> "Lib", is_proc_macro |-> is_proc_macro]
Kind(tag) == [tag |-> tag]
TargetKinds ==
    {Lib(b) : b \in BOOLEAN}
    \cup {Kind(t) : t \in {"Bin", "Example", "Test", "Bench", "BuildScript", "Other"}}

\* TargetKind's Display, used by format!("--{kind}")
KindDisplay(kind) ==
    CASE kind.tag = "Bin" -> "bin"
      [] kind.tag = "Example" -> "example"
      [] kind.tag = "Test" -> "test"
      [] kind.tag = "Bench" -> "bench"
      [] kind.tag = "BuildScript" -> "build-script"
      [] kind.tag = "Other" -> "other"
      [] kind.tag = "Lib" -> IF kind.is_proc_macro THEN "proc-macro" ELSE "lib"

\* CargoOptions::apply_on_command: the arguments the options add
ApplyOnCommand(options) == options.args

\* the match on kind with the Other arm missing
KindArgs_OtherNamed(kind, target) ==
    CASE kind.tag = "Lib" -> <<"--lib">>
      [] OTHER -> <<"--" \o KindDisplay(kind), target>>

\* the match on kind with the Lib arm missing
KindArgs_LibNamed(kind, target) ==
    CASE kind.tag = "Other" -> <<>>
      [] OTHER -> <<"--" \o KindDisplay(kind), target>>

\* match kind { Lib => .., Other => .., _ => .. }
KindArgs(kind, target) ==
    CASE kind.tag = "Lib" -> <<"--lib">>
      [] kind.tag = "Other" -> <<>>
      [] OTHER -> <<"--" \o KindDisplay(kind), target>>

\* match &test_target { Package => .., Workspace => .. }
TargetArgs(test_target) ==
    IF test_target.scope = "Package"
    THEN <<"--package", test_target.package>>
         \o KindArgs(test_target.kind, test_target.target)
    ELSE <<"--workspace">>

\* the first match on test_tool: the subcommand and what selects the tests
HeadArgs(in) ==
    IF in.test_tool = "CargoTest"
    THEN <<"test">> \o TargetArgs(in.test_target)
    ELSE <<"nextest", "run">>
         \o (IF in.path.some THEN <<"-E", in.path.v>> ELSE <<>>)

\* the arguments both tools get
SharedArgs(in) ==
    <<"--no-fail-fast", "--manifest-path", in.root \o "/Cargo.toml">>
    \o ApplyOnCommand(in.options)

\* the second match with the filter pushed before the separator
TailArgs_FilterFirst(in) ==
    IF in.test_tool = "CargoTest"
    THEN (IF in.path.some THEN <<in.path.v>> ELSE <<>>)
         \o <<"--">>
         \o <<"-Z", "unstable-options", "--format=json">>
         \o in.options.extra_test_bin_args
    ELSE <<"--message-format", "libtest-json", "--">>

\* the second match with the test binary's arguments passed to nextest too
TailArgs_NextestExtra(in) ==
    IF in.test_tool = "CargoTest"
    THEN <<"--">>
         \o (IF in.path.some THEN <<in.path.v>> ELSE <<>>)
         \o <<"-Z", "unstable-options", "--format=json">>
         \o in.options.extra_test_bin_args
    ELSE <<"--message-format", "libtest-json", "--">>
         \o in.options.extra_test_bin_args

\* the second match on test_tool: what follows the options
TailArgs(in) ==
    IF in.test_tool = "CargoTest"
    THEN <<"--">>
         \o (IF in.path.some THEN <<in.path.v>> ELSE <<>>)
         \o <<"-Z", "unstable-options", "--format=json">>
         \o in.options.extra_test_bin_args
    ELSE <<"--message-format", "libtest-json", "--">>

CommandEnv(in) ==
    {<<"RUSTC_BOOTSTRAP", "1">>}
    \cup (IF in.test_tool = "CargoNextest"
          THEN {<<"NEXTEST_EXPERIMENTAL_LIBTEST_JSON", "1">>} ELSE {})

\* the command handed to CommandHandle::spawn
Command(in) ==
    [program |-> "cargo", dir |-> in.root, env |-> CommandEnv(in),
     args |-> HeadArgs(in) \o SharedArgs(in) \o TailArgs(in)]

--------------------------------------------------------------------------
(* SpecCmd: the command built for one call of CargoTestHandle::new *)

\* the longest list of option arguments and of test binary arguments
MaxArgs == 2

SeqsUpTo(S, n) == UNION {[1..m -> S] : m \in 0..n}

Paths == {None, Some("module::func")}
Roots == {"/ws"}
PackageNames == {"my-package"}
TargetNames == {"my-package", "my-target"}
OptionArgs == {"--all-targets", "--offline"}
TestBinArgs == {"--nocapture", "--show-output"}

TestTargets ==
    {Workspace}
    \cup {Package(p, t, k) : p \in PackageNames, t \in TargetNames, k \in TargetKinds}

Options ==
    [args : SeqsUpTo(OptionArgs, MaxArgs),
     extra_test_bin_args : SeqsUpTo(TestBinArgs, MaxArgs)]

Inputs ==
    [test_tool : {"CargoTest", "CargoNextest"}, path : Paths, options : Options,
     root : Roots, test_target : TestTargets]

InitCmd ==
    /\ input \in Inputs
    /\ cmd = NotCalled
    /\ src = NotCalled /\ line = <<>> /\ message = NotCalled
    /\ InitRuns

Build ==
    /\ cmd = NotCalled
    /\ cmd' = Command(input)
    /\ UNCHANGED <<input, parseVars, runVars>>

NextCmd == Build

SpecCmd == InitCmd /\ [][NextCmd]_vars

--------------------------------------------------------------------------
(* Properties of the command line *)

Range(s) == {s[i] : i \in DOMAIN s}

FirstIndex(s, x) == CHOOSE i \in DOMAIN s : s[i] = x /\ \A j \in 1..(i - 1) : s[j] # x

Built(tool) == cmd # NotCalled /\ input.test_tool = tool

ManifestArgs == <<"--no-fail-fast", "--manifest-path", input.root \o "/Cargo.toml">>

FilterArgs == IF input.path.some THEN <<input.path.v>> ELSE <<>>

\* what `cargo test` gets between "test" and "--no-fail-fast"
ScopePart == SubSeq(cmd.args, 2, FirstIndex(cmd.args, "--no-fail-fast") - 1)

\* C5: for `cargo test` the arguments are "test", the scope arguments,
\* --no-fail-fast, --manifest-path <root>/Cargo.toml, the option arguments,
\* one "--", the filter iff given, -Z unstable-options --format=json, the
\* extra test binary arguments; nothing of the filter or the extra arguments
\* precedes the separator.
C5_PrimaryOrder ==
    Built("CargoTest") =>
        LET args == cmd.args
            after == <<"--">> \o FilterArgs
                     \o <<"-Z", "unstable-options", "--format=json">>
                     \o input.options.extra_test_bin_args
            before == ManifestArgs \o input.options.args
            n == Len(args) - Len(after) - Len(before) - 1
            sep == FirstIndex(args, "--")
        IN  /\ n >= 1
            /\ args = <<"test">> \o SubSeq(args, 2, n + 1) \o before \o after
            /\ Cardinality({i \in DOMAIN args : args[i] = "--"}) = 1
            /\ sep = n + 1 + Len(before) + 1
            /\ \A i \in 1..(sep - 1) :
                    args[i] \notin Range(FilterArgs)
                                   \cup Range(input.options.extra_test_bin_args)
            /\ (input.test_target = Workspace /\ ~input.path.some
                   /\ input.options.args = <<>>
                   /\ input.options.extra_test_bin_args = <<>>)
                => args = <<"test", "--workspace", "--no-fail-fast",
                            "--manifest-path", input.root \o "/Cargo.toml",
                            "--", "-Z", "unstable-options", "--format=json">>

\* C5 witness: a `cargo test` command built with a filter, two option
\* arguments and two extra test binary arguments for a package target.
C5_Witness ==
    /\ Built("CargoTest")
    /\ input.path.some
    /\ input.test_target.scope = "Package"
    /\ Len(input.options.args) = 2
    /\ Len(input.options.extra_test_bin_args) = 2

\* C6: for `cargo test` on a package target the scope arguments are
\* --package <package> followed by: no target name for a library; nothing
\* for Other; "--<kind>" and the target name for every other kind.
C6_PackageKind ==
    (Built("CargoTest") /\ input.test_target.scope = "Package") =>
        LET t == input.test_target
            rest == SubSeq(ScopePart, 3, Len(ScopePart))
        IN  /\ Len(ScopePart) >= 2
            /\ SubSeq(ScopePart, 1, 2) = <<"--package", t.package>>
            /\ CASE t.kind.tag = "Lib" -> t.target \notin Range(rest)
                 [] t.kind.tag = "Other" -> rest = <<>>
                 [] OTHER -> rest = <<"--" \o KindDisplay(t.kind), t.target>>

\* C6 witness: a `cargo test` command built for a bin target.
C6_Witness ==
    /\ Built("CargoTest")
    /\ input.test_target.scope = "Package"
    /\ input.test_target.kind = Kind("Bin")
    /\ ScopePart = <<"--package", "my-package", "--bin", "my-target">>

IsLibPackage ==
    /\ Built("CargoTest")
    /\ input.test_target.scope = "Package"
    /\ input.test_target.kind.tag = "Lib"

\* C7 (as claimed): for a library target nothing follows the package name:
\* the next token is --no-fail-fast.
C7_NothingAfterPackage ==
    IsLibPackage =>
        /\ ScopePart = <<"--package", input.test_target.package>>
        /\ cmd.args[4] = "--no-fail-fast"

\* C7 (amended): for a library target the package name is followed by the
\* flag --lib and no target name: the token after --lib is --no-fail-fast.
C7_LibFlagOnly ==
    IsLibPackage =>
        SubSeq(cmd.args, 1, 5) = <<"test", "--package", input.test_target.package,
                                   "--lib", "--no-fail-fast">>

\* C7 witness: a `cargo test` command built for a library target.
C7_Witness == IsLibPackage /\ cmd.args[4] = "--lib"

\* C10: for `cargo nextest` the arguments are exactly nextest run, -E and
\* the filter iff given, --no-fail-fast, --manifest-path <root>/Cargo.toml,
\* the option arguments, --message-format libtest-json and a final "--",
\* whatever the test target and the extra test binary arguments.
C10_NextestArgs ==
    Built("CargoNextest") =>
        cmd.args = <<"nextest", "run">>
                   \o (IF input.path.some THEN <<"-E", input.path.v>> ELSE <<>>)
                   \o ManifestArgs \o input.options.args
                   \o <<"--message-format", "libtest-json", "--">>

\* C10 witness: a `cargo nextest` command built with a filter and extra test
\* binary arguments for a package target.
C10_Witness ==
    /\ Built("CargoNextest")
    /\ input.path.some
    /\ input.test_target.scope = "Package"
    /\ Len(input.options.extra_test_bin_args) = 2
    /\ cmd.args[Len(cmd.args)] = "--"

--------------------------------------------------------------------------
(* Spec: runs.  CargoTestHandle::new builds the command and hands it, with *)
(* the caller's sender, to CommandHandle::spawn; a spawned command's       *)
(* output is read line by line in the background, each line goes through   *)
(* from_line and the end of the output through from_eof, and what they     *)
(* return is sent on the sender.  A message on a channel is recorded with  *)
(* the run it came from.                                                   *)

Runs == {1, 2}
Channels == {"c1", "c2"}
NoChannel == "none"

\* the inputs of the calls of CargoTestHandle::new
RunInputs ==
    {[test_tool |-> "CargoTest", path |-> None, root |-> "/ws",
      options |-> [args |-> <<>>, extra_test_bin_args |-> <<>>],
      test_target |-> Workspace]}

FinishedLine == RenderObject(<< <<"type", Str("finished")>> >>)
RunningLine == <<Word("running"), Word("3"), Word("tests")>>

\* the lines a process prints
StreamLines == {FinishedLine, RunningLine}

Init ==
    /\ src = NotCalled /\ line = <<>> /\ message = NotCalled
    /\ input = NotCalled /\ cmd = NotCalled
    /\ result = [r \in Runs |-> "none"]
    /\ handle = [r \in Runs |-> "none"]
    /\ spawned = [r \in Runs |-> NotCalled]
    /\ sender = [r \in Runs |-> NoChannel]
    /\ reader = [r \in Runs |-> "none"]
    /\ lines = [r \in Runs |-> <<>>]
    /\ chan = [c \in Channels |-> <<>>]

\* CommandHandle::spawn(cmd, sender): ok tells whether the process started
Spawn(r, c, ch, ok) ==
    /\ spawned' = [spawned EXCEPT ![r] = [ok |-> ok, cmd |-> c, sender |-> ch]]
    /\ reader' = [reader EXCEPT ![r] = IF ok THEN "reading" ELSE "none"]

\* new with the `?` after spawn lost: a handle whatever spawn returned
New_IgnoreSpawnError(r, in, ch, ok) ==
    /\ result[r] = "none"
    /\ sender' = [sender EXCEPT ![r] = ch]
    /\ Spawn(r, Command(in), ch, ok)
    /\ result' = [result EXCEPT ![r] = "Ok"]
    /\ handle' = [handle EXCEPT ![r] = "held"]
    /\ UNCHANGED <<parseVars, cmdVars, lines, chan>>

\* new spawning every run on one sender instead of the caller's
New_OneSender(r, in, ch, ok) ==
    /\ result[r] = "none"
    /\ sender' = [sender EXCEPT ![r] = ch]
    /\ Spawn(r, Command(in), "c1", ok)
    /\ result' = [result EXCEPT ![r] = IF ok THEN "Ok" ELSE "Err"]
    /\ handle' = [handle EXCEPT ![r] = IF ok THEN "held" ELSE "none"]
    /\ UNCHANGED <<parseVars, cmdVars, lines, chan>>

\* CargoTestHandle::new(test_tool, path, options, root, test_target, sender)
New(r, in, ch, ok) ==
    /\ result[r] = "none"
    /\ sender' = [sender EXCEPT ![r] = ch]
    /\ Spawn(r, Command(in), ch, ok)
    /\ result' = [result EXCEPT ![r] = IF ok THEN "Ok" ELSE "Err"]
    /\ handle' = [handle EXCEPT ![r] = IF ok THEN "held" ELSE "none"]
    /\ UNCHANGED <<parseVars, cmdVars, lines, chan>>

\* sender.send(m) by run r, when m is Some
Send(r, m) ==
    chan' = IF m.some
            THEN [chan EXCEPT ![spawned[r].sender] =
                                Append(@, [msg |-> m.v, from |-> r])]
            ELSE chan

\* the reader of run r reads the line l
ReadLine(r, l) ==
    /\ reader[r] = "reading"
    /\ Len(lines[r]) < MaxLines
    /\ lines' = [lines EXCEPT ![r] = Append(@, l)]
    /\ Send(r, from_line(l))
    /\ UNCHANGED <<parseVars, cmdVars, result, handle, spawned, sender, reader>>

\* the reader of run r reaches the end of the output
ReadEof(r) ==
    /\ reader[r] = "reading"
    /\ reader' = [reader EXCEPT ![r] = "eof"]
    /\ Send(r, from_eof)
    /\ UNCHANGED <<parseVars, cmdVars, result, handle, spawned, sender, lines>>

\* the caller drops the handle of run r
Drop(r) ==
    /\ handle[r] = "held"
    /\ handle' = [handle EXCEPT ![r] = "dropped"]
    /\ reader' = [reader EXCEPT ![r] = IF @ = "reading" THEN "stopped" ELSE @]
    /\ UNCHANGED <<parseVars, cmdVars, result, spawned, sender, lines, chan>>

Next ==
    \E r \in Runs :
        \/ \E in \in RunInputs, ch \in Channels, ok \in BOOLEAN : New(r, in, ch, ok)
        \/ \E l \in StreamLines : ReadLine(r, l)
        \/ ReadEof(r)
        \/ Drop(r)

Spec == Init /\ [][Next]_vars

--------------------------------------------------------------------------
(* Properties of runs *)

\* the messages of run r on the channel the caller gave it, oldest first
Delivered(r) ==
    IF sender[r] = NoChannel THEN <<>>
    ELSE LET own(e) == e.from = r
             sent == SelectSeq(chan[sender[r]], own)
         IN  [i \in 1..Len(sent) |-> sent[i].msg]

\* where messages of run r are found, on any channel
OnAnyChannel(r) ==
    UNION {{<<c, i>> : i \in {j \in 1..Len(chan[c]) : chan[c][j].from = r}} :
           c \in Channels}

Occurrences(s, x) == Cardinality({i \in DOMAIN s : s[i] = x})

\* C1: once the output of a started run has ended, the last message the run
\* delivered is Finished, whatever the lines were; a finished line in the
\* output is answered by a Finished of its own, so Finished is then
\* delivered again at the end.
C1_LastIsFinished ==
    \A r \in Runs :
        reader[r] = "eof" =>
            LET d == Delivered(r)
            IN  /\ Len(d) >= 1
                /\ d[Len(d)] = Finished
                /\ Occurrences(d, Finished) >= 1 + Occurrences(lines[r], FinishedLine)

\* C1 witness: a run whose output held a finished line and no other line
\* has ended and delivered Finished twice.
C1_Witness ==
    \E r \in Runs :
        /\ reader[r] = "eof"
        /\ lines[r] = <<FinishedLine>>
        /\ Delivered(r) = <<Finished, Finished>>

\* C2: before the end of the output, the messages a run delivered are the
\* results of from_line on its lines, one per line and in the order of the
\* lines.
C2_OnePerLineInOrder ==
    \A r \in Runs :
        result[r] = "Ok" =>
            LET d == Delivered(r)
                n == Len(lines[r])
            IN  /\ Len(d) = n + (IF reader[r] = "eof" THEN 1 ELSE 0)
                /\ \A i \in 1..n : Some(d[i]) = from_line(lines[r][i])

\* C2 witness: a run has read a text line and then a finished line and
\* delivered Custom and Finished in that order.
C2_Witness ==
    \E r \in Runs :
        /\ reader[r] = "reading"
        /\ lines[r] = <<RunningLine, FinishedLine>>
        /\ Delivered(r) = <<Custom(RunningLine), Finished>>

BothStarted == \A r \in Runs : result[r] = "Ok"

\* the channel of run r holds the messages of r and no other
OwnSequenceOnly(r) ==
    /\ \A i \in 1..Len(chan[sender[r]]) : chan[sender[r]][i].from = r
    /\ Len(chan[sender[r]]) = Len(lines[r]) + (IF reader[r] = "eof" THEN 1 ELSE 0)
    /\ \A i \in 1..Len(lines[r]) :
            Some(chan[sender[r]][i].msg) = from_line(lines[r][i])

C9_SpawnErrorIsSynchronous ==
    \A r \in Runs :
        /\ result[r] = "Err" <=> (spawned[r] # NotCalled /\ ~spawned[r].ok)
        /\ result[r] = "Ok" <=> (spawned[r] # NotCalled /\ spawned[r].ok)
        /\ (spawned[r] # NotCalled /\ ~spawned[r].ok) =>
              /\ handle[r] = "none"
              /\ reader[r] = "none"
              /\ lines[r] = <<>>
              /\ OnAnyChannel(r) = {}

\* C9 witness: one run failed to spawn while the other has delivered its
\* messages up to the end of its output.
C9_Witness ==
    \E r, q \in Runs :
        /\ result[r] = "Err"
        /\ reader[q] = "eof"
        /\ Len(chan[sender[q]]) >= 2

==========================================================================
